---- MODULE Spec2Model ----
(***************************************************************************)
(* The H-tree line iterator of the htree crate (src/src/lib.rs; the copy   *)
(* in src/src/htree.rs is line for line the same algorithm).               *)
(*                                                                         *)
(* Machine integers are modelled as sequences of 16-bit limbs (lowest      *)
(* first) of the width of their Rust type, because the values the code     *)
(* handles (1u32 << 31, the product 2^16 * 2^16, indices at 2^31) do not   *)
(* fit the integers of the model checker.  Every arithmetic operator       *)
(* returns the wrapped value together with the overflow flag, so that both *)
(* builds of the crate are covered: with overflow checks (debug profile)   *)
(* an overflow panics, without them (release profile) the value wraps.     *)
(*                                                                         *)
(* A coordinate (c + 0.5) / N is kept as the exact fraction                *)
(* <<2c + 1, 2N>>; y coordinates are in units of SCALE_HEIGHT.             *)
(***************************************************************************)
EXTENDS Integers, Sequences, FiniteSets, TLC

VARIABLES
    cur,              \* cur[c]: the HTreeIterator c: [h_tree: [order], index]
    ret,              \* ret[c]: what the last call of next on c returned
    trace,            \* trace[c]: the returns of all calls of next on c so far
    overflow_checks   \* whether the build panics on arithmetic overflow

vars == <<cur, ret, trace, overflow_checks>>

\* ------------------------------------------------------------------ bounds

\* Largest order of an HTree built in Spec.
MaxOrder == 4
\* Calls of next made on a cursor after its first None.
MaxExtra == 2
\* Largest order of an HTree built in SpecWide.
WideMaxOrder == 32
\* A cursor of SpecWide is picked up Back calls before a level boundary ...
Back == 3
\* ... and followed for at most Window calls.
Window == 6

\* ------------------------------------------------------- machine integers

\* The width of usize (a 64-bit target) and of u32.
USIZE_BITS == 64
U32_BITS == 32

Cursors == {1, 2}

\* A machine integer is the sequence of its 16-bit limbs, lowest first: a u32
\* is <<low, high>>, a usize has four limbs.
Base == 2 ^ 16

\* A function on 1..n as the tuple of its values.
Limbs(f) == SubSeq(f, 1, Len(f))

\* The value n < 2^31 on bits bits.
ToLimbs(n, bits) ==
    Limbs([i \in 1..(bits \div 16) |->
              IF i = 1 THEN n % Base ELSE IF i = 2 THEN n \div Base ELSE 0])

U32(n) == ToLimbs(n, U32_BITS)
Usize(n) == ToLimbs(n, USIZE_BITS)

\* Whether a is below 2^30, and then its value.
FitsNat(a) ==
    \A i \in 1..Len(a) : IF i = 2 THEN a[i] < 2 ^ 14 ELSE i > 2 => a[i] = 0
ToNat(a) == a[1] + Base * a[2]

\* 2^k on bits bits (zero when k >= bits).
Pow2(k, bits) ==
    Limbs([i \in 1..(bits \div 16) |->
              IF i = k \div 16 + 1 THEN 2 ^ (k % 16) ELSE 0])

\* `x as u32`: the low two limbs.
AsU32(a) == <<a[1], a[2]>>

\* a + b + c over Len(a) limbs; the last element of the result is the carry
\* out.  Used for the usize increment.
RECURSIVE AddLimbs(_, _, _)
AddLimbs(a, b, c) ==
    IF a = <<>> THEN <<c>>
    ELSE <<(Head(a) + Head(b) + c) % Base>>
         \o AddLimbs(Tail(a), Tail(b), (Head(a) + Head(b) + c) \div Base)

WrappingAddUsize(a, b) ==
    LET r == AddLimbs(a, b, 0)
    IN  [val |-> SubSeq(r, 1, Len(a)), overflow |-> r[Len(a) + 1] = 1]

WrappingAdd(a, b) ==
    LET s0 == a[1] + b[1]
        s1 == a[2] + b[2] + (s0 \div Base)
    IN  [val |-> <<s0 % Base, s1 % Base>>, overflow |-> s1 >= Base]

WrappingSub(a, b) ==
    LET t0 == a[1] - b[1]
        t1 == a[2] - b[2] - (IF t0 < 0 THEN 1 ELSE 0)
    IN  [val |-> <<(t0 + Base) % Base, (t1 + Base) % Base>>,
         overflow |-> t1 < 0]

\* a <= b, unsigned.
LeU32(a, b) == a[2] < b[2] \/ (a[2] = b[2] /\ a[1] <= b[1])

\* The bits of a u32 moved up by k < 32 places.
ShiftLeft(a, k) ==
    IF k >= 16
    THEN <<0, (a[1] * 2 ^ (k - 16)) % Base>>
    ELSE <<(a[1] * 2 ^ k) % Base,
           (((a[2] * 2 ^ k) % Base) + ((a[1] * 2 ^ k) \div Base)) % Base>>

\* a << k: a shift by 32 or more overflows; the wrapped result shifts by
\* k mod 32.
WrappingShl(a, k) ==
    [val |-> ShiftLeft(a, k % U32_BITS), overflow |-> k >= U32_BITS]

\* The product of two limbs, as <<low limb, high limb>>.
MulLimb(x, y) ==
    LET t1 == (x \div 256) * y
        t0 == (t1 % 256) * 256 + (x % 256) * y
    IN  <<t0 % Base, (t1 \div 256) + (t0 \div Base)>>

\* a * b: the low half of the 64-bit product, and whether the high half is
\* non-zero.
WrappingMul(a, b) ==
    LET p00 == MulLimb(a[1], b[1])
        p01 == MulLimb(a[1], b[2])
        p10 == MulLimb(a[2], b[1])
        p11 == MulLimb(a[2], b[2])
        s1  == p00[2] + p01[1] + p10[1]
        s2  == p01[2] + p10[2] + p11[1] + (s1 \div Base)
        s3  == p11[2] + (s2 \div Base)
    IN  [val |-> <<p00[1], s1 % Base>>,
         overflow |-> s2 % Base # 0 \/ s3 # 0]

BitOf(a, i) == (a[i \div 16 + 1] \div 2 ^ (i % 16)) % 2

\* Long division from bit i of a down.  The remainder is rh * 2^16 + rl and
\* the quotient qh * 2^16 + ql; the remainder stays below the divisor, so
\* twice it plus one bit is below 2^33.
RECURSIVE DivStep(_, _, _, _, _, _, _)
DivStep(a, d, i, rh, rl, qh, ql) ==
    IF i < 0 THEN [quot |-> <<ql, qh>>, rem |-> <<rl, rh>>]
    ELSE IF LeU32(d, <<(2 * rl + BitOf(a, i)) % Base,
                       2 * rh + ((2 * rl + BitOf(a, i)) \div Base)>>)
    THEN DivStep(a, d, i - 1,
                 2 * rh + ((2 * rl + BitOf(a, i)) \div Base) - d[2]
                   - (IF ((2 * rl + BitOf(a, i)) % Base) < d[1] THEN 1 ELSE 0),
                 (((2 * rl + BitOf(a, i)) % Base) - d[1] + Base) % Base,
                 IF i >= 16 THEN qh + 2 ^ (i - 16) ELSE qh,
                 IF i >= 16 THEN ql ELSE ql + 2 ^ i)
    ELSE DivStep(a, d, i - 1,
                 2 * rh + ((2 * rl + BitOf(a, i)) \div Base),
                 (2 * rl + BitOf(a, i)) % Base, qh, ql)

\* The position of the highest set bit of a non-zero value.
ilog2(a) ==
    LET top == CHOOSE i \in 1..Len(a) :
                   a[i] # 0 /\ \A j \in (i + 1)..Len(a) : a[j] = 0
    IN  16 * (top - 1)
        + (CHOOSE k \in 0..15 : 2 ^ k <= a[top] /\ a[top] < 2 ^ (k + 1))

\* a / d and a % d for d # 0.  The division starts at the highest set bit
\* of a: the bits above it leave quotient and remainder at zero.
DivMod(a, d) ==
    IF a = <<0, 0>> THEN [quot |-> <<0, 0>>, rem |-> <<0, 0>>]
    ELSE DivStep(a, d, ilog2(a), 0, 0, 0, 0)

\* ------------------------------------------------------------ the crate

\* HTree::new: the order is a usize; the marker carries no value.
HTree_new(order) == [order |-> order]

\* IntoIterator::into_iter.
into_iter(h_tree) == [h_tree |-> h_tree, index |-> Usize(0)]

\* let order_index = self.index.ilog2() as u32;
order_index(index) == ilog2(index)

\* Faulty variant: the comparison taken as >=, which drops the last level.
past_last_order_ge(k, h_tree) == LeU32(AsU32(h_tree.order), U32(k))

\* Faulty variant: the end recognised only at the level right after the last one.
past_last_order_eq(k, h_tree) ==
    U32(k) = WrappingAdd(AsU32(h_tree.order), U32(1)).val

\* if order_index > self.h_tree.order as u32 { return None; }
past_last_order(k, h_tree) ==
    ~LeU32(U32(k), AsU32(h_tree.order))

\* Faulty variant: the offset within the level counted from 1.
iteration_index_from_one(index, k) ==
    LET s == WrappingShl(U32(1), k)
        d == WrappingSub(AsU32(index), WrappingSub(s.val, U32(1)).val)
    IN  [val |-> d.val, overflow |-> s.overflow \/ d.overflow]

\* let iteration_index = self.index as u32 - (1u32 << order_index);
iteration_index(index, k) ==
    LET s == WrappingShl(U32(1), k)
        d == WrappingSub(AsU32(index), s.val)
    IN  [val |-> d.val, overflow |-> s.overflow \/ d.overflow]

\* let num_vertical_rectangles = 1u32 << (order_index + 1) / 2;
num_vertical_rectangles(k) == WrappingShl(U32(1), (k + 1) \div 2)

\* Faulty variant: the + 1 of the shift amount forgotten.
num_horizontal_rectangles_half(k) == WrappingShl(U32(1), k \div 2)

\* let num_horizontal_rectangles = 1u32 << order_index / 2 + 1;
num_horizontal_rectangles(k) == WrappingShl(U32(1), k \div 2 + 1)

\* Faulty variant: the sum of the two counts instead of their product.
num_rectangles_sum(v, h) == WrappingAdd(v, h)

\* let num_rectangles = num_vertical_rectangles * num_horizontal_rectangles;
num_rectangles(v, h) == WrappingMul(v, h)

\* Faulty variant: the assertion left out.
assert_dropped(cells, iter) ==
    [val |-> TRUE, overflow |-> WrappingMul(iter, U32(2)).overflow]

\* assert_eq!(num_rectangles >= iteration_index * 2, true);
assert_holds(cells, iter) ==
    LET d == WrappingMul(iter, U32(2))
    IN  [val |-> LeU32(d.val, cells), overflow |-> d.overflow]

\* Faulty variant: the factor 2 forgotten.
rectangle_index_single(iter) == [val |-> iter, overflow |-> FALSE]

\* let rectangle_index = 2 * iteration_index;
rectangle_index(iter) == WrappingMul(U32(2), iter)

\* Faulty variant: the vertical branch decomposed like the horizontal one.
vertical_cells_row_major(ri, n) ==
    [num_x_start |-> DivMod(ri, n).rem,
     num_y_start |-> DivMod(WrappingSub(ri, DivMod(ri, n).rem).val, n).quot,
     num_x_end   |-> DivMod(WrappingAdd(ri, U32(1)).val, n).rem,
     num_y_end   |-> DivMod(WrappingSub(WrappingAdd(ri, U32(1)).val,
                                        DivMod(WrappingAdd(ri, U32(1)).val,
                                               n).rem).val, n).quot,
     overflow    |-> WrappingAdd(ri, U32(1)).overflow]

\* The branch of an odd order_index (vertical line): the index is
\* y + height * x.  n is num_vertical_rectangles.
vertical_cells(ri, n) ==
    LET y_start == DivMod(ri, n).rem
        dx      == WrappingSub(ri, y_start)
        ri1     == WrappingAdd(ri, U32(1))
        y_end   == DivMod(ri1.val, n).rem
        dx1     == WrappingSub(ri1.val, y_end)
    IN  [num_x_start |-> DivMod(dx.val, n).quot,
         num_y_start |-> y_start,
         num_x_end   |-> DivMod(dx1.val, n).quot,
         num_y_end   |-> y_end,
         overflow    |-> dx.overflow \/ ri1.overflow \/ dx1.overflow]

\* The branch of an even order_index (horizontal line): the index is
\* x + width * y.  n is num_horizontal_rectangles.
horizontal_cells(ri, n) ==
    LET x_start == DivMod(ri, n).rem
        dy      == WrappingSub(ri, x_start)
        ri1     == WrappingAdd(ri, U32(1))
        x_end   == DivMod(ri1.val, n).rem
        dy1     == WrappingSub(ri1.val, x_end)
    IN  [num_x_start |-> x_start,
         num_y_start |-> DivMod(dy.val, n).quot,
         num_x_end   |-> x_end,
         num_y_end   |-> DivMod(dy1.val, n).quot,
         overflow    |-> dy.overflow \/ ri1.overflow \/ dy1.overflow]

\* Faulty variant: the cell corner c / n instead of the cell centre.
normalize_corner(c, n) == <<2 * ToNat(c), 2 * ToNat(n)>>

\* (T::from(c) + 0.5) / T::from(n), as the fraction (2c + 1) / 2n.  It is in
\* lowest terms whenever n is a power of two.  The conversions are exact in
\* f32 and f64 for c, n below 2^23.
normalize(c, n) == <<2 * ToNat(c) + 1, 2 * ToNat(n)>>

\* Some(((x_start, y_start * s), (x_end, y_end * s))), s = SCALE_HEIGHT.  The
\* y fractions stand for their product with s.
item(g, v, h) ==
    <<<<normalize(g.num_x_start, h), normalize(g.num_y_start, v)>>,
      <<normalize(g.num_x_end, h), normalize(g.num_y_end, v)>>>>

Panic(cause, k) == [tag |-> "Panic", cause |-> cause, order_index |-> k]

\* The body of Iterator::next after the increment, for the incremented
\* index; checks tells whether overflow panics.
decode(h_tree, index, checks) ==
    LET k == order_index(index)
    IN  IF past_last_order(k, h_tree)
        THEN [tag |-> "None", order_index |-> k]
        ELSE
        LET iter  == iteration_index(index, k)
            v     == num_vertical_rectangles(k)
            h     == num_horizontal_rectangles(k)
            cells == num_rectangles(v.val, h.val)
            guard == assert_holds(cells.val, iter.val)
            ri    == rectangle_index(iter.val)
            g     == IF k % 2 = 1 THEN vertical_cells(ri.val, v.val)
                                  ELSE horizontal_cells(ri.val, h.val)
        IN  IF checks /\ (iter.overflow \/ v.overflow \/ h.overflow
                          \/ cells.overflow \/ guard.overflow)
            THEN Panic("overflow", k)
            ELSE IF ~guard.val THEN Panic("assert", k)
            ELSE IF checks /\ (ri.overflow \/ g.overflow)
            THEN Panic("overflow", k)
            ELSE [tag |-> "Some",
                  order_index |-> k,
                  iteration_index |-> iter.val,
                  num_vertical_rectangles |-> v.val,
                  num_horizontal_rectangles |-> h.val,
                  num_rectangles |-> cells.val,
                  wrapped |-> iter.overflow \/ v.overflow \/ h.overflow
                              \/ cells.overflow \/ guard.overflow
                              \/ ri.overflow \/ g.overflow,
                  num_x_start |-> g.num_x_start,
                  num_y_start |-> g.num_y_start,
                  num_x_end |-> g.num_x_end,
                  num_y_end |-> g.num_y_end,
                  item |-> item(g, v.val, h.val)]

\* What a caller sees of a return: Some(item), None, or the panic.
Returned(r) ==
    [tag |-> r.tag, order_index |-> r.order_index,
     item |-> IF r.tag = "Some" THEN r.item ELSE <<>>]

\* Faulty variant: one position counter shared by all cursors.
next_shared_index(c) ==
    /\ ret[c].tag # "Panic"
    /\ LET inc == WrappingAddUsize(cur[c].index, Usize(1))
           r   == decode(cur[c].h_tree, inc.val, overflow_checks)
       IN  /\ cur' = [d \in Cursors |-> [cur[d] EXCEPT !.index = inc.val]]
           /\ ret' = [ret EXCEPT ![c] = r]
           /\ trace' = [trace EXCEPT ![c] = Append(trace[c], Returned(r))]
    /\ UNCHANGED overflow_checks

\* Iterator::next on cursor c.  self.index += 1 comes first, so the index
\* stays incremented whatever the call returns.  A cursor whose call
\* panicked is not called again.
next(c) ==
    /\ ret[c].tag # "Panic"
    /\ LET inc == WrappingAddUsize(cur[c].index, Usize(1))
           r   == IF overflow_checks /\ inc.overflow
                  THEN Panic("overflow", 0)
                  ELSE decode(cur[c].h_tree, inc.val, overflow_checks)
       IN  /\ cur' = [cur EXCEPT ![c].index = inc.val]
           /\ ret' = [ret EXCEPT ![c] = r]
           /\ trace' = [trace EXCEPT ![c] = Append(trace[c], Returned(r))]
    /\ UNCHANGED overflow_checks

NoCall == [tag |-> "NoCall", order_index |-> 0]

\* Two cursors made by into_iter from HTree::new(o), o at most MaxOrder.
Init ==
    /\ overflow_checks \in BOOLEAN
    /\ \E o \in 0..MaxOrder :
           cur = [c \in Cursors |-> into_iter(HTree_new(Usize(o)))]
    /\ ret = [c \in Cursors |-> NoCall]
    /\ trace = [c \in Cursors |-> <<>>]

NoneCount(s) == Cardinality({i \in 1..Len(s) : s[i].tag = "None"})

Next == \E c \in Cursors : NoneCount(trace[c]) <= MaxExtra /\ next(c)

Spec == Init /\ [][Next]_vars

\* A cursor Back calls before position 2^k: index = 2^k - Back - 1 + 1 calls
\* made, or the fresh cursor when 2^k <= Back.
StartIndex(k) ==
    IF k <= 30 /\ 2 ^ k <= Back THEN Usize(0)
    ELSE Limbs([i \in 1..(USIZE_BITS \div 16) |->
                  IF i <= 2 THEN WrappingSub(Pow2(k, U32_BITS), U32(Back)).val[i]
                  ELSE 0])

\* The orders of SpecWide: 0 .. WideMaxOrder, and 2^32 + 1, whose low 32
\* bits are all that next reads of it.
WideOrders == {Usize(o) : o \in 0..WideMaxOrder} \cup {<<1, 0, 1, 0>>}

\* The cursors of HTree::new(o) picked up shortly before the first position
\* of level o32 or of level o32 + 1, o32 the low 32 bits of o.  Every such
\* index is below 2^31, which a cursor of any order reaches: the calls
\* before it returned Some or None and none panicked.
InitWide ==
    /\ overflow_checks \in BOOLEAN
    /\ \E o \in WideOrders :
       \E k \in {ToNat(AsU32(o)), ToNat(AsU32(o)) + 1} \cap 1..(U32_BITS - 1) :
           cur = [c \in Cursors |->
                     [h_tree |-> HTree_new(o), index |-> StartIndex(k)]]
    /\ ret = [c \in Cursors |-> NoCall]
    /\ trace = [c \in Cursors |-> <<>>]

NextWide == \E c \in Cursors : Len(trace[c]) < Window /\ next(c)

SpecWide == InitWide /\ [][NextWide]_vars

\* ------------------------------------------------------------ properties

Order(c) == ToNat(cur[c].h_tree.order)
Position(c) == ToNat(cur[c].index)
Calls(c) == Len(trace[c])

RECURSIVE FloorLog2(_)
FloorLog2(n) == IF n <= 1 THEN 0 ELSE 1 + FloorLog2(n \div 2)

\* The calls of next on c that returned a line of level k.
LevelCalls(c, k) ==
    {n \in 1..Calls(c) :
        trace[c][n].tag = "Some" /\ trace[c][n].order_index = k}

\* The fraction f equals p / q.
IsFrac(f, p, q) == f[1] * q = p * f[2]

\* C1 (count law): a fresh cursor of order o returns a line on each of its
\* first 2^(o+1) - 1 calls of next and None on call 2^(o+1); for order 0 the
\* second call returns None.
C1_CountLaw ==
    \A c \in Cursors : \A n \in 1..Calls(c) :
        /\ n <= 2 ^ (Order(c) + 1) - 1 => trace[c][n].tag = "Some"
        /\ n = 2 ^ (Order(c) + 1) => trace[c][n].tag = "None"

C1_Witness ==
    \E c \in Cursors :
        /\ Order(c) >= 1
        /\ Calls(c) = 2 ^ (Order(c) + 1)
        /\ trace[c][Calls(c)].tag = "None"
        /\ trace[c][Calls(c) - 1].tag = "Some"

\* C3 (determinism, restartability): two cursors made from HTrees of the
\* same order return the same thing on their n-th calls, however their calls
\* interleave, and a call on one cursor leaves the position, the last return
\* and the returns so far of the other unchanged.
C3_SameOutput ==
    cur[1].h_tree = cur[2].h_tree =>
        \A n \in 1..Calls(1) : n <= Calls(2) => trace[1][n] = trace[2][n]

C3_CallIsLocal ==
    \A c \in Cursors :
        trace'[c] # trace[c] =>
            \A d \in Cursors \ {c} :
                cur'[d] = cur[d] /\ ret'[d] = ret[d] /\ trace'[d] = trace[d]

C3_Determinism == [](C3_SameOutput) /\ [][C3_CallIsLocal]_vars

C3_Witness ==
    /\ cur[1].h_tree = cur[2].h_tree
    /\ Calls(1) >= 3 /\ Calls(2) >= 5
    /\ trace[1][3].tag = "Some" /\ trace[2][5].tag = "Some"

\* C4 (level-size law): the n-th line has level floor(log2 n) and offset
\* n - 2^level within 0 .. 2^level - 1; levels never decrease along the
\* sequence; the lines of level k are those of the calls 2^k .. 2^(k+1) - 1,
\* 2^k of them, for every k up to the order.
C4_LevelSizeLaw ==
    \A c \in Cursors :
        /\ \A n \in 1..Calls(c) :
               trace[c][n].tag = "Some" =>
                   /\ trace[c][n].order_index = FloorLog2(n)
                   /\ \A m \in 1..n : trace[c][m].tag = "Some"
                          => trace[c][m].order_index <= trace[c][n].order_index
        /\ ret[c].tag = "Some" =>
               /\ FitsNat(ret[c].iteration_index)
               /\ ToNat(ret[c].iteration_index)
                      = Position(c) - 2 ^ ret[c].order_index
               /\ ToNat(ret[c].iteration_index) <= 2 ^ ret[c].order_index - 1
        /\ \A k \in 0..Order(c) :
               /\ LevelCalls(c, k) \subseteq (2 ^ k)..(2 ^ (k + 1) - 1)
               /\ Calls(c) >= 2 ^ (k + 1) - 1 =>
                      /\ LevelCalls(c, k) = (2 ^ k)..(2 ^ (k + 1) - 1)
                      /\ Cardinality(LevelCalls(c, k)) = 2 ^ k

C4_Witness ==
    \E c \in Cursors :
        /\ Order(c) >= 2
        /\ Calls(c) >= 2 ^ (Order(c) + 1)
        /\ Cardinality(LevelCalls(c, Order(c))) = 2 ^ Order(c)

\* C5 (order 1): the cursor returns exactly three lines, in this order: the
\* bar (1/4, 1/2 s) - (3/4, 1/2 s), then (1/4, 1/4 s) - (1/4, 3/4 s), then
\* (3/4, 1/4 s) - (3/4, 3/4 s), s = SCALE_HEIGHT, from the cells x 0 and 1 of
\* H = 2 at y 0 of V = 1, then x 0 with y 0 and 1 of V = 2, then x 1 with y 0
\* and 1 of V = 2; every later call returns None.
IsLine(it, xs, ys, xe, ye) ==
    /\ IsFrac(it[1][1], xs, 4) /\ IsFrac(it[1][2], ys, 4)
    /\ IsFrac(it[2][1], xe, 4) /\ IsFrac(it[2][2], ye, 4)

IsCells(r, xs, ys, xe, ye, v, h) ==
    /\ r.num_x_start = U32(xs) /\ r.num_y_start = U32(ys)
    /\ r.num_x_end = U32(xe) /\ r.num_y_end = U32(ye)
    /\ r.num_vertical_rectangles = U32(v)
    /\ r.num_horizontal_rectangles = U32(h)

C5_OrderOne ==
    \A c \in Cursors :
        Order(c) = 1 =>
            /\ \A n \in 1..Calls(c) :
                   /\ n <= 3 => trace[c][n].tag = "Some"
                   /\ n = 1 => IsLine(trace[c][n].item, 1, 2, 3, 2)
                   /\ n = 2 => IsLine(trace[c][n].item, 1, 1, 1, 3)
                   /\ n = 3 => IsLine(trace[c][n].item, 3, 1, 3, 3)
                   /\ n >= 4 => trace[c][n].tag = "None"
            /\ Position(c) = 1 => IsCells(ret[c], 0, 0, 1, 0, 1, 2)
            /\ Position(c) = 2 => IsCells(ret[c], 0, 0, 0, 1, 2, 2)
            /\ Position(c) = 3 => IsCells(ret[c], 1, 0, 1, 1, 2, 2)

C5_Witness ==
    \E c \in Cursors :
        Order(c) = 1 /\ Calls(c) = 4 /\ trace[c][4].tag = "None"

\* Equality of fractions and of points, and the midpoint of a line.
SameFrac(f, g) == f[1] * g[2] = g[1] * f[2]
SamePoint(p, q) == SameFrac(p[1], q[1]) /\ SameFrac(p[2], q[2])
MidFrac(f, g) == <<f[1] * g[2] + g[1] * f[2], 2 * f[2] * g[2]>>
MidPoint(it) == <<MidFrac(it[1][1], it[2][1]), MidFrac(it[1][2], it[2][2])>>
IsHorizontal(it) == SameFrac(it[1][2], it[2][2]) /\ ~SameFrac(it[1][1], it[2][1])
IsVertical(it) == SameFrac(it[1][1], it[2][1]) /\ ~SameFrac(it[1][2], it[2][2])

\* The lines of level k that have point p as their midpoint.
CrossingAt(c, k, p) ==
    {m \in LevelCalls(c, k) : SamePoint(MidPoint(trace[c][m].item), p)}

\* C7 (connectivity): for every level k from 1 to the order, the midpoint of
\* every line of level k is an end of a line of level k - 1, to which it is
\* perpendicular, and once level k is complete each end of every line of
\* level k - 1 is the midpoint of exactly one line of level k.
C7_Connectivity ==
    \A c \in Cursors : \A k \in 1..Order(c) :
        /\ \A m \in LevelCalls(c, k) :
               \E n \in LevelCalls(c, k - 1) :
                   /\ \E e \in 1..2 :
                          SamePoint(MidPoint(trace[c][m].item),
                                    trace[c][n].item[e])
                   /\ IsHorizontal(trace[c][n].item)
                          = IsVertical(trace[c][m].item)
                   /\ IsVertical(trace[c][n].item)
                          = IsHorizontal(trace[c][m].item)
        /\ Calls(c) >= 2 ^ (k + 1) - 1 =>
               \A n \in LevelCalls(c, k - 1) : \A e \in 1..2 :
                   Cardinality(CrossingAt(c, k, trace[c][n].item[e])) = 1

C7_Witness ==
    \E c \in Cursors :
        /\ Order(c) >= 3
        /\ Calls(c) >= 2 ^ (Order(c) + 1) - 1
        /\ Cardinality(LevelCalls(c, Order(c))) = 2 ^ Order(c)
        /\ Cardinality(LevelCalls(c, Order(c) - 1)) = 2 ^ (Order(c) - 1)

\* C10 (the end is permanent): once a call of next on a cursor has returned
\* None, every later call on it returns None; every call, those returning
\* None included, adds exactly 1 to the position counter, so the counter
\* equals the number of calls made and position 0 is never decoded.
C10_CounterAndEnd ==
    \A c \in Cursors :
        /\ FitsNat(cur[c].index) /\ Position(c) = Calls(c)
        /\ (ret[c].tag = "NoCall") = (Position(c) = 0)
        /\ \A n \in 1..Calls(c) : \A m \in n..Calls(c) :
               trace[c][n].tag = "None" => trace[c][m].tag = "None"

\* A call that returns None changes the position counter of its cursor and
\* nothing else.
C10_NoneOnlyCounts ==
    \A c \in Cursors :
        (trace'[c] # trace[c] /\ ret'[c].tag = "None") =>
            /\ cur'[c].h_tree = cur[c].h_tree
            /\ cur'[c].index = WrappingAddUsize(cur[c].index, Usize(1)).val
            /\ overflow_checks' = overflow_checks
            /\ \A d \in Cursors \ {c} :
                   cur'[d] = cur[d] /\ ret'[d] = ret[d] /\ trace'[d] = trace[d]

C10_EndIsPermanent == [](C10_CounterAndEnd) /\ [][C10_NoneOnlyCounts]_vars

C10_Witness ==
    \E c \in Cursors :
        /\ Calls(c) >= 3
        /\ trace[c][Calls(c) - 2].tag = "None"
        /\ trace[c][Calls(c)].tag = "None"

\* ---------------------------------------------- properties at high levels

Order32(c) == AsU32(cur[c].h_tree.order)
LtU32(a, b) == ~LeU32(b, a)
Succ(a) == WrappingAdd(a, U32(1)).val

\* Position 2^31, the first of level 31, and the one after it.
FirstOfLevel31 == Pow2(U32_BITS - 1, USIZE_BITS)
SecondOfLevel31 == WrappingAddUsize(FirstOfLevel31, Usize(1)).val

\* The fraction f lies strictly between 0 and 1.
InUnit(f) == 0 < f[1] /\ f[1] < f[2]

\* C2 (bounding box): for every line returned, both x cell indices are in
\* 0 .. H - 1 and both y cell indices in 0 .. V - 1, V and H the partition
\* counts of its level, so that each (c + 0.5) / N lies between 0 and 1: x in
\* [0, 1] and y, after the scale, in [0, 1/sqrt 2].
C2_BoundingBox ==
    \A c \in Cursors :
        ret[c].tag = "Some" =>
            /\ LtU32(ret[c].num_x_start, ret[c].num_horizontal_rectangles)
            /\ LtU32(ret[c].num_x_end, ret[c].num_horizontal_rectangles)
            /\ LtU32(ret[c].num_y_start, ret[c].num_vertical_rectangles)
            /\ LtU32(ret[c].num_y_end, ret[c].num_vertical_rectangles)
            /\ \A e \in 1..2 : \A i \in 1..2 : InUnit(ret[c].item[e][i])

C2_Witness ==
    \E c \in Cursors :
        /\ ret[c].tag = "Some" /\ ret[c].order_index = 30
        /\ Succ(ret[c].num_x_end) = ret[c].num_horizontal_rectangles
        /\ Succ(ret[c].num_y_end) = ret[c].num_vertical_rectangles

\* C6, as the specification states it (overflow is silent): with wrapping
\* arithmetic, a cursor of order at least 31 that reaches level 31 goes on
\* returning lines and never aborts.
C6_SilentOverflow ==
    \A c \in Cursors :
        (/\ ~overflow_checks
         /\ LeU32(U32(U32_BITS - 1), Order32(c))
         /\ ret[c].order_index = U32_BITS - 1)
            => ret[c].tag = "Some"

\* C6, amended: with wrapping arithmetic, a cursor of order at least 31 (the
\* order read as next reads it, as a u32) returns a line without any error
\* at position 2^31 only, where the offset is 0 and V * H has wrapped to 0;
\* the call for position 2^31 + 1 fails the assertion
\* num_rectangles >= iteration_index * 2 and panics.
C6_GuardStopsLevel31 ==
    \A c \in Cursors :
        (/\ ~overflow_checks
         /\ LeU32(U32(U32_BITS - 1), Order32(c))
         /\ ret[c].order_index >= U32_BITS - 1)
            => \/ /\ cur[c].index = FirstOfLevel31
                  /\ ret[c].tag = "Some"
                  /\ ret[c].wrapped
                  /\ ret[c].iteration_index = U32(0)
                  /\ ret[c].num_rectangles = U32(0)
               \/ /\ cur[c].index = SecondOfLevel31
                  /\ ret[c].tag = "Panic"
                  /\ ret[c].cause = "assert"

C6_Witness ==
    \E c \in Cursors :
        /\ ~overflow_checks
        /\ cur[c].index = SecondOfLevel31
        /\ ret[c].tag = "Panic"
        /\ Len(trace[c]) >= 2
        /\ trace[c][Len(trace[c]) - 1].tag = "Some"
        /\ trace[c][Len(trace[c]) - 1].order_index = U32_BITS - 1

\* C8 (parity, unit span): a line of an odd level is vertical and spans one
\* cell, x_start = x_end and y_end = y_start + 1 < V (the remainder of
\* cell_index + 1 does not wrap); a line of an even level is horizontal and
\* spans one cell, y_start = y_end and x_end = x_start + 1 < H; level 0 has
\* V = 1, H = 2 and is the one bar from cell x 0 to cell x 1.
C8_ParityAndUnitSpan ==
    \A c \in Cursors :
        ret[c].tag = "Some" =>
            /\ ret[c].order_index % 2 = 1 =>
                   /\ ret[c].num_x_start = ret[c].num_x_end
                   /\ ret[c].num_y_end = Succ(ret[c].num_y_start)
                   /\ LtU32(ret[c].num_y_start, ret[c].num_y_end)
                   /\ LtU32(ret[c].num_y_end, ret[c].num_vertical_rectangles)
            /\ ret[c].order_index % 2 = 0 =>
                   /\ ret[c].num_y_start = ret[c].num_y_end
                   /\ ret[c].num_x_end = Succ(ret[c].num_x_start)
                   /\ LtU32(ret[c].num_x_start, ret[c].num_x_end)
                   /\ LtU32(ret[c].num_x_end, ret[c].num_horizontal_rectangles)
            /\ ret[c].order_index = 0 =>
                   /\ cur[c].index = Usize(1)
                   /\ ret[c].num_vertical_rectangles = U32(1)
                   /\ ret[c].num_horizontal_rectangles = U32(2)
                   /\ ret[c].num_x_start = U32(0) /\ ret[c].num_x_end = U32(1)
                   /\ ret[c].num_y_start = U32(0)

C8_Witness ==
    /\ ret[1].tag = "Some" /\ ret[2].tag = "Some"
    /\ ret[1].order_index >= 17 /\ ret[1].order_index % 2 = 1
    /\ ret[2].order_index >= 17 /\ ret[2].order_index % 2 = 0
    /\ ret[1].num_y_start # U32(0) /\ ret[2].num_x_start # U32(0)

\* C9 (the guard never fires): for every order from 0 to 30, no call of next
\* panics, and at every position decoded V * H does not wrap, equals
\* 2^(level + 1), and is at least 2 * offset, which does not wrap either.
C9_GuardNeverFires ==
    \A c \in Cursors :
        LeU32(Order32(c), U32(30)) =>
            /\ ret[c].tag # "Panic"
            /\ ret[c].tag = "Some" =>
                   /\ ~ret[c].wrapped
                   /\ ret[c].num_rectangles
                          = Pow2(ret[c].order_index + 1, U32_BITS)
                   /\ ~WrappingAdd(ret[c].iteration_index,
                                   ret[c].iteration_index).overflow
                   /\ LeU32(WrappingAdd(ret[c].iteration_index,
                                        ret[c].iteration_index).val,
                            ret[c].num_rectangles)

C9_Witness ==
    \E c \in Cursors :
        /\ Order32(c) = U32(30)
        /\ ret[c].tag = "Some" /\ ret[c].order_index = 30
        /\ Succ(AsU32(cur[c].index)) = Pow2(U32_BITS - 1, U32_BITS)

====
